---------------------------- MODULE Spec2Model ----------------------------
(***************************************************************************)
(* The resumable ingestion-and-classification pipeline of wraith:          *)
(* main / VulnerabilityProcessor (src/main.go), the incremental batcher    *)
(* Downloader.ProcessVulnerabilities / processBatch                        *)
(* (src/internal/downloader/downloader.go) and the checkpoint store        *)
(* (src/internal/storage/firestore.go); the validation of the model's     *)
(* answer (src/internal/classifier/classifier.go); the feed reader         *)
(* parseCSV and the feed cache downloadCSV of the downloader.              *)
(*                                                                         *)
(* Timestamps are Go strings; they are modelled as sequences of digits and *)
(* compared as Go compares strings (bytewise, a proper prefix is smaller). *)
(* The empty sequence is the empty string, the "no watermark" sentinel.    *)
(***************************************************************************)
EXTENDS Naturals, Sequences, FiniteSets

\* Bounds of the model.
MaxRecords == 2
MaxBatch == 2
MaxRuns == 2

\* The `modified` column values an index row may carry: "1" < "10".
Timestamps == {<<1>>, <<1, 0>>}
\* The feed groups an index row may carry. Without a filter the loop never tells
\* one group from another (line 96 stops at the empty filter), so one group stands
\* for all of them.
Ecosystems(filter) == IF filter = "" THEN {"npm"} ELSE {"npm", "go"}
\* The values of the optional group filter (config.OSVConfig.Ecosystem).
EcosystemFilters == {"", "npm"}

VARIABLES
    records,                 \* the parsed feed index ([]*CSVRecord), unchanged between runs
    ecosystem,               \* d.config.Ecosystem
    classifications,         \* the store: ids of the documents of the classification collection
    lastProcessedTimestamp,  \* the store: ProcessingState.LastProcessedTimestamp
    pc,                      \* position of the process
    resume,                  \* the -resume flag of the current run
    lastTimestamp,           \* VulnerabilityProcessor.lastTimestamp
    batchSize,               \* the -batch flag of the current run
    batch,                   \* ProcessVulnerabilities' batch (positions in records)
    i,                       \* position of the range loop over records
    j,                       \* position of processBatch's range loop over batch
    finalBatch,              \* processBatch was called after the loop (line 120)
    vuln,                    \* the *Vulnerability handed to processFunc
    ctxDone,                 \* ctx.Done() is closed
    err,                     \* what Run returned
    processedCount,          \* VulnerabilityProcessor.processedCount
    totalProcessingTimeMs,   \* VulnerabilityProcessor.totalProcessingTimeMs
    totalTokens,             \* VulnerabilityProcessor.totalTokens
    log,                     \* history: the external calls of the current run, in order
    runs,                    \* history: number of runs started
    startTimestamp,          \* history: the stored watermark when the current run started
    completedEarlier,        \* history: ids stored and watermarked in an earlier run
    previousClean,           \* history: the previous run completed without any failure
    getErr,                  \* history: GetLastProcessedTimestamp returned an error (main, line 49)
    previous,                \* history: the calls and the result of the run before the current one
    classification,          \* processVulnerability's classification (main, line 109)
    response,                \* history: what the model returned to the last Classify
    data,                    \* the rows csv.Reader reads from the payload given to parseCSV
    parseResult,             \* what parseCSV returned
    cache_ttl,               \* cache_ttl of the configuration file, in hours (0 when omitted)
    cacheTTL,                \* d.config.CacheTTL, in hours
    now,                     \* time.Now(), in hours
    cacheDir,                \* the directory d.config.CacheDir exists
    cacheFile,               \* the payload file <key>.csv of the cache
    metaFile,                \* the metadata file <key>.meta.json of the cache
    upstream,                \* the payload the feed serves
    fetches,                 \* history: number of calls of downloadCSV
    fetched,                 \* history: the course and the result of the last downloadCSV
    saved,                   \* history: the last payload saveToCache stored in full, and when
    downloadedAt,            \* history: the hour the payload at the cache path was downloaded
    tmpFiles,                \* number of csv_download_*.tmp files in the cache directory
    content,                 \* response.Content, the text of the model's answer
    structured,              \* what ChatStructured returned for it
    candidate,               \* the *Classification given to validateClassification
    verdict,                 \* what validateClassification returned
    osv,                     \* the *Vulnerability given to buildClassificationPrompt
    prompt                   \* what buildClassificationPrompt returned, line by line

vars == <<records, ecosystem, classifications, lastProcessedTimestamp, pc, resume,
          lastTimestamp, batchSize, batch, i, j, finalBatch, vuln, ctxDone, err,
          processedCount, totalProcessingTimeMs, totalTokens, log, runs, startTimestamp,
          completedEarlier, previousClean,
          getErr, previous, classification, response, data, parseResult, cacheTTL, now, cacheDir,
          cacheFile, metaFile, upstream, fetches, fetched, saved, cache_ttl, downloadedAt,
          tmpFiles, content, structured,
          candidate, verdict, osv, prompt>>

storeVars == <<classifications, lastProcessedTimestamp>>
configVars == <<records, ecosystem>>
runVars == <<resume, lastTimestamp, batchSize, runs, startTimestamp, completedEarlier,
             previousClean, getErr, previous>>
classifyVars == <<classification, response>>
parseVars == <<data, parseResult>>
cacheVars == <<cache_ttl, cacheTTL, now, cacheDir, cacheFile, metaFile, upstream, fetches, fetched,
               saved, downloadedAt, tmpFiles>>
metricsVars == <<processedCount, totalProcessingTimeMs, totalTokens>>
classifierVars == <<content, structured, candidate, verdict, osv, prompt>>
pipelineVars == <<configVars, storeVars, runVars, classifyVars, pc, batch, i, j, finalBatch,
                  vuln, ctxDone, err, metricsVars, log>>

-----------------------------------------------------------------------------
\* Go's string order.

RECURSIVE StrLess(_, _)
StrLess(a, b) ==
    IF b = <<>> THEN FALSE
    ELSE IF a = <<>> THEN TRUE
    ELSE IF Head(a) # Head(b) THEN Head(a) < Head(b)
    ELSE StrLess(Tail(a), Tail(b))

StrLeq(a, b) == a = b \/ StrLess(a, b)

\* A CSVRecord; the record id of row k is k.
CSVRecord(k, modified, eco) == [Modified |-> modified, Ecosystem |-> eco, VulnID |-> k]

\* The feed indexes of n rows.
Indexes(n, filter) ==
    { [k \in 1..n |-> CSVRecord(k, f[k][1], f[k][2])] :
        f \in [1..n -> Timestamps \X Ecosystems(filter)] }

NoVuln == [ID |-> 0, Modified |-> <<>>]

\* The nil *Classification, and the nil error of validateClassification.
NoClassification == [nil |-> TRUE]
NoError == [field |-> "", kind |-> "nil", valid |-> {}]

Event(kind, k) == [kind |-> kind, rec |-> k]

\* The positions of the records with an event of this kind in the log.
Logged(kind) == { log[n].rec : n \in { m \in 1..Len(log) : log[m].kind = kind } }

FailureKinds == {"fetchfail", "classifyfail", "storefail", "updatefail"}

-----------------------------------------------------------------------------
-----------------------------------------------------------------------------
\* The feed reader: parseCSV. The text of a column is a sequence of bytes.

MaxRows == 2

\* The byte of the separator "/" of an index path.
Slash == 47

\* The index paths of the rows: "a/b", "ab", "/b", "a/", "a/b/c" and "".
Paths == {<<97, 47, 98>>, <<97, 98>>, <<47, 98>>, <<97, 47>>, <<97, 47, 98, 47, 99>>, <<>>}

\* The records csv.Reader reads: of one, two and three columns. It never
\* returns a record without a field, as it skips the empty lines.
Rows ==
    { <<t>> : t \in Timestamps } \cup (Timestamps \X Paths)
        \cup { <<t, <<97, 47, 98>>, <<120>>>> : t \in Timestamps }

\* The payloads of at most n rows.
Payloads(n) == UNION { [1..m -> Rows] : m \in 0..n }

\* strings.SplitN(s, "/", 2) cutting at the last separator.
SplitN_LastSeparator(s) ==
    LET at == { p \in 1..Len(s) : s[p] = Slash }
    IN  IF at = {} THEN <<s>>
        ELSE LET p == CHOOSE q \in at : \A r \in at : r <= q
             IN  <<SubSeq(s, 1, p - 1), SubSeq(s, p + 1, Len(s))>>

\* strings.SplitN(s, "/", 2) of line 267: s itself when it holds no separator, else
\* the text before the first separator and the text after it.
SplitN(s) ==
    LET at == { p \in 1..Len(s) : s[p] = Slash }
    IN  IF at = {} THEN <<s>>
        ELSE LET p == CHOOSE q \in at : \A r \in at : q <= r
             IN  <<SubSeq(s, 1, p - 1), SubSeq(s, p + 1, Len(s))>>

\* parseCSV, lines 252-277: the loop over reader.Read() from row n on. csv.NewReader
\* leaves FieldsPerRecord at 0: Read sets it to the number of fields of the first
\* record and returns ErrFieldCount for a later record of another number of fields,
\* which parseCSV returns as its error (lines 257-259).
RECURSIVE ReadLoop(_, _, _, _)
ReadLoop(rows, n, fieldsPerRecord, acc) ==
    IF n > Len(rows) THEN [records |-> acc, err |-> "nil"]
    ELSE LET row == rows[n]
             expected == IF fieldsPerRecord = 0 THEN Len(row) ELSE fieldsPerRecord
         IN  IF Len(row) # expected THEN [records |-> <<>>, err |-> "reading CSV"]
             ELSE IF Len(row) # 2 THEN ReadLoop(rows, n + 1, expected, acc)
             ELSE LET parts == SplitN(row[2])
                  IN  IF Len(parts) # 2 THEN ReadLoop(rows, n + 1, expected, acc)
                      ELSE ReadLoop(rows, n + 1, expected,
                                    Append(acc, [Modified |-> row[1],
                                                 Ecosystem |-> parts[1],
                                                 VulnID |-> parts[2],
                                                 FullPath |-> row[2]]))

\* parseCSV, lines 248-280.
parseCSV(rows) == ReadLoop(rows, 1, 0, <<>>)

\* parseCSV has not returned.
NotParsed == [records |-> <<>>, err |-> "pending"]

\* No payload is being parsed.
NoParse ==
    /\ data = <<>>
    /\ parseResult = NotParsed

-----------------------------------------------------------------------------
\* The feed cache. Times and TTLs are whole hours.

MaxClock == 3
MaxTTL == 2
MaxFetches == 3

\* The payloads the feed may serve: two indexes that parse and one that does not
\* (its second row has one column).
FeedPayloads ==
    { <<<<<<1>>, <<97, 47, 98>>>>>>,
      <<<<<<1>>, <<97, 47, 98>>>>, <<<<1, 0>>, <<97, 47, 98>>>>>>,
      <<<<<<1>>, <<97, 47, 98>>>>, <<<<1, 0>>>>>> }

\* A file that does not exist, a payload file, a file that exists and cannot be read
\* or does not unmarshal, and the metadata file of a CacheMetadata.
NoFile == [exists |-> FALSE, valid |-> FALSE, rows |-> <<>>, CachedAt |-> 0, TTL |-> 0]
PayloadFile(rows) == [NoFile EXCEPT !.exists = TRUE, !.valid = TRUE, !.rows = rows]
CorruptFile == [NoFile EXCEPT !.exists = TRUE]
CacheMetadata(cachedAt, ttl) ==
    [NoFile EXCEPT !.exists = TRUE, !.valid = TRUE, !.CachedAt = cachedAt, !.TTL = ttl]

\* downloadCSV has not been called; saveToCache has not stored anything.
NoFetch == [hit |-> FALSE, calls |-> 0, failed |-> "none", err |-> "pending", records |-> <<>>]
NotSaved == [done |-> FALSE, at |-> 0, records |-> <<>>]

\* The cache is not in use.
NoCache ==
    /\ cache_ttl = 0
    /\ cacheTTL = 0
    /\ now = 0
    /\ cacheDir = FALSE
    /\ cacheFile = NoFile
    /\ metaFile = NoFile
    /\ upstream = <<>>
    /\ fetches = 0
    /\ fetched = NoFetch
    /\ saved = NotSaved
    /\ downloadedAt = 0
    /\ tmpFiles = 0

\* ChatStructured has not been called; validateClassification has not been called;
\* no record has been given to buildClassificationPrompt.
NotAsked == [err |-> "pending", Result |-> NoClassification]
NotValidated == [field |-> "", kind |-> "pending", valid |-> {}]
NoRecord == [Details |-> <<>>, Aliases |-> <<>>, Affected |-> <<>>, References |-> <<>>,
             Severity |-> <<>>]

\* The classifier is not in use.
NoClassifier ==
    /\ content = <<>>
    /\ structured = NotAsked
    /\ candidate = NoClassification
    /\ verdict = NotValidated
    /\ osv = NoRecord
    /\ prompt = <<>>

\* There was no run before the current one.
NoRun == [log |-> <<>>, err |-> "none"]

\* No run has started yet.
IdleRun ==
    /\ pc = "idle"
    /\ resume = FALSE
    /\ lastTimestamp = <<>>
    /\ batchSize = 1
    /\ batch = <<>>
    /\ i = 1
    /\ j = 1
    /\ finalBatch = FALSE
    /\ vuln = NoVuln
    /\ ctxDone = FALSE
    /\ err = "none"
    /\ processedCount = 0
    /\ totalProcessingTimeMs = 0
    /\ totalTokens = 0
    /\ log = <<>>
    /\ runs = 0
    /\ startTimestamp = <<>>
    /\ completedEarlier = {}
    /\ previousClean = FALSE
    /\ getErr = FALSE
    /\ previous = NoRun
    /\ classification = NoClassification
    /\ response = NoClassification

Init ==
    /\ ecosystem \in EcosystemFilters
    /\ records \in UNION { Indexes(n, ecosystem) : n \in 1..MaxRecords }
    /\ classifications = {}
    /\ lastProcessedTimestamp = <<>>
    /\ IdleRun
    /\ NoParse
    /\ NoCache
    /\ NoClassifier


-----------------------------------------------------------------------------
\* SkipTimestamp with `<` for `<=`: a record at the watermark is processed again.
SkipTimestamp_Strict(record, last) == last # <<>> /\ StrLess(record.Modified, last)

\* ProcessVulnerabilities, lines 90-93: the record was already processed.
SkipTimestamp(record, last) == last # <<>> /\ StrLeq(record.Modified, last)

\* ProcessVulnerabilities, lines 95-98: the record is of another ecosystem.
SkipEcosystem(record, eco) == eco # "" /\ record.Ecosystem # eco

\* Select returning nil once the context is cancelled.
Select_ReturnsNil ==
    IF ctxDone
    THEN pc' = "done" /\ err' = "none" /\ i' = i
    ELSE pc' = "loop" /\ err' = err /\ i' = i + 1

\* ProcessVulnerabilities, lines 111-115: the select on ctx.Done() that ends an
\* iteration of the loop over records.
Select ==
    IF ctxDone
    THEN pc' = "done" /\ err' = "cancelled" /\ i' = i
    ELSE pc' = "loop" /\ err' = err /\ i' = i + 1

\* Classify, lines 105-110: the elapsed time and the token usage the backend
\* reported that Classify sets on the classification of the record at position k of
\* the index; the values differ from record to record.
ProcessingTimeMs(k) == k
TotalTokens(k) == 2 ^ k

\* The outcomes (TRUE: no error) of a call that carries ctx: the detail fetch
\* (fetchVulnerability, line 329), the model request and the store's writes are bound
\* to the run's context, so a call begun after the cancellation fails.
Outcomes == IF ctxDone THEN {FALSE} ELSE BOOLEAN

\* An error of processFunc that processBatch logs and does not return.
ReturnError_Swallowed == pc' = "fetch" /\ err' = err

\* processBatch line 320 and ProcessVulnerabilities lines 104, 121: an error of
\* processFunc is wrapped and returned; main then exits through log.Fatalf.
ReturnError == pc' = "done" /\ err' = "process"

\* GetLastProcessedTimestamp returning the stored watermark along with its error.
GetLastProcessedTimestamp_StaleOnError(getOk) == lastProcessedTimestamp

\* FirestoreStorage.GetLastProcessedTimestamp, lines 72-88: the stored watermark; the
\* empty string when there is no document (the store's initial state) and, with the
\* error, when the read fails.
GetLastProcessedTimestamp(getOk) == IF getOk THEN lastProcessedTimestamp ELSE <<>>

\* main, lines 46-62, Run, and ProcessVulnerabilities up to the loop (lines 81-87).
\* getOk: GetLastProcessedTimestamp, which is called only with the flag, returned no
\* error; downloadOk: downloadCSV returned the index.
\* sizes: the values of the -batch flag.
StartRun(sizes) ==
    /\ pc \in {"idle", "done"}
    /\ runs < MaxRuns
    /\ runs' = runs + 1
    /\ startTimestamp' = lastProcessedTimestamp
    /\ completedEarlier' = completedEarlier \cup Logged("update")
    /\ previousClean' = (pc = "done" /\ err = "none"
                          /\ \A n \in 1..Len(log) : log[n].kind \notin FailureKinds)
    /\ batch' = <<>>
    /\ i' = 1
    /\ j' = 1
    /\ finalBatch' = FALSE
    /\ vuln' = NoVuln
    /\ ctxDone' = FALSE
    /\ processedCount' = 0
    /\ totalProcessingTimeMs' = 0
    /\ totalTokens' = 0
    /\ log' = <<>>
    /\ classification' = NoClassification
    /\ response' = NoClassification
    /\ UNCHANGED <<parseVars, cacheVars, classifierVars>>
    /\ UNCHANGED <<configVars, storeVars>>
    /\ \E flag \in BOOLEAN, size \in sizes, downloadOk \in BOOLEAN :
      \E getOk \in IF flag THEN BOOLEAN ELSE {TRUE} :
        /\ resume' = flag
        /\ getErr' = (flag /\ ~getOk)
        /\ lastTimestamp' = IF flag THEN GetLastProcessedTimestamp(getOk) ELSE <<>>
        /\ batchSize' = size
        /\ IF downloadOk
           THEN pc' = "loop" /\ err' = "none"
           ELSE pc' = "done" /\ err' = "download"

Start == StartRun(1..MaxBatch) /\ UNCHANGED previous

\* The caller's context is cancelled while the run is in progress.
Cancel ==
    /\ pc \notin {"idle", "done"}
    /\ ~ctxDone
    /\ ctxDone' = TRUE
    /\ UNCHANGED <<parseVars, cacheVars, classifierVars>>
    /\ UNCHANGED <<configVars, classifyVars, storeVars, runVars, pc, batch, i, j, finalBatch, vuln,
                   err, metricsVars, log>>

\* LoopStep putting each selected record at the head of the batch.
LoopStep_Prepends ==
    /\ pc = "loop"
    /\ i <= Len(records)
    /\ IF SkipTimestamp(records[i], lastTimestamp) \/ SkipEcosystem(records[i], ecosystem)
       THEN /\ i' = i + 1
            /\ UNCHANGED <<pc, err, batch, j, finalBatch>>
       ELSE /\ batch' = <<i>> \o batch
            /\ IF Len(batch') >= batchSize
               THEN /\ pc' = "fetch"
                    /\ j' = 1
                    /\ finalBatch' = FALSE
                    /\ UNCHANGED <<err, i>>
               ELSE /\ Select
                    /\ UNCHANGED <<j, finalBatch>>
    /\ UNCHANGED <<parseVars, cacheVars, classifierVars>>
    /\ UNCHANGED <<configVars, classifyVars, storeVars, runVars, vuln, ctxDone,
                   metricsVars, log>>

\* ProcessVulnerabilities, lines 89-116: one iteration of the loop over records,
\* up to the call of processBatch when the batch is full.
LoopStep ==
    /\ pc = "loop"
    /\ i <= Len(records)
    /\ IF SkipTimestamp(records[i], lastTimestamp) \/ SkipEcosystem(records[i], ecosystem)
       THEN /\ i' = i + 1
            /\ UNCHANGED <<pc, err, batch, j, finalBatch>>
       ELSE /\ batch' = Append(batch, i)
            /\ IF Len(batch') >= batchSize
               THEN /\ pc' = "fetch"
                    /\ j' = 1
                    /\ finalBatch' = FALSE
                    /\ UNCHANGED <<err, i>>
               ELSE /\ Select
                    /\ UNCHANGED <<j, finalBatch>>
    /\ UNCHANGED <<parseVars, cacheVars, classifierVars>>
    /\ UNCHANGED <<configVars, classifyVars, storeVars, runVars, vuln, ctxDone,
                   metricsVars, log>>

\* LoopEnd returning without the flush of the records left in the batch.
LoopEnd_DropsPartialBatch ==
    /\ pc = "loop"
    /\ i > Len(records)
    /\ pc' = "done"
    /\ err' = "none"
    /\ UNCHANGED <<j, finalBatch>>
    /\ UNCHANGED <<parseVars, cacheVars, classifierVars>>
    /\ UNCHANGED <<configVars, classifyVars, storeVars, runVars, batch, i, vuln, ctxDone,
                   metricsVars, log>>

\* ProcessVulnerabilities, lines 118-127: the records are exhausted.
LoopEnd ==
    /\ pc = "loop"
    /\ i > Len(records)
    /\ IF Len(batch) > 0
       THEN /\ pc' = "fetch"
            /\ j' = 1
            /\ finalBatch' = TRUE
            /\ err' = err
       ELSE /\ pc' = "done"
            /\ err' = "none"
            /\ UNCHANGED <<j, finalBatch>>
    /\ UNCHANGED <<parseVars, cacheVars, classifierVars>>
    /\ UNCHANGED <<configVars, classifyVars, storeVars, runVars, batch, i, vuln, ctxDone,
                   metricsVars, log>>

\* fetchVulnerability, lines 326-350: the detail document of the record at position
\* k of the index. Its own `modified` is the feed's business: here the index value
\* with a fraction of a second appended, which is no value of the index.
fetchVulnerability(k) ==
    [ID |-> records[k].VulnID, Modified |-> Append(records[k].Modified, 9)]

\* processBatch handing the detail document to processFunc as it was fetched.
FetchVulnerability_KeepsDetailModified ==
    /\ pc = "fetch"
    /\ j <= Len(batch)
    /\ \E ok \in Outcomes :
        IF ok
        THEN /\ vuln' = fetchVulnerability(batch[j])
             /\ pc' = "classify"
             /\ log' = Append(log, Event("fetch", batch[j]))
             /\ j' = j
        ELSE /\ log' = Append(log, Event("fetchfail", batch[j]))
             /\ j' = j + 1
             /\ UNCHANGED <<vuln, pc>>
    /\ UNCHANGED <<parseVars, cacheVars, classifierVars>>
    /\ UNCHANGED <<configVars, classifyVars, storeVars, runVars, batch, i, finalBatch, ctxDone, err,
                   metricsVars>>

\* FetchVulnerability returning the fetch error instead of continuing.
FetchVulnerability_Fatal ==
    /\ pc = "fetch"
    /\ j <= Len(batch)
    /\ \E ok \in Outcomes :
        IF ok
        THEN /\ vuln' = [ID |-> records[batch[j]].VulnID,
                         Modified |-> records[batch[j]].Modified]
             /\ pc' = "classify"
             /\ log' = Append(log, Event("fetch", batch[j]))
             /\ err' = err
        ELSE /\ log' = Append(log, Event("fetchfail", batch[j]))
             /\ ReturnError
             /\ UNCHANGED vuln
    /\ UNCHANGED <<parseVars, cacheVars, classifierVars>>
    /\ UNCHANGED <<configVars, classifyVars, storeVars, runVars, batch, i, j, finalBatch, ctxDone,
                   metricsVars>>

\* processBatch, lines 310-317: fetchVulnerability for the next record of the batch;
\* a failure is logged and the loop continues, a success overwrites vuln.Modified
\* with the index row's timestamp.
FetchVulnerability ==
    /\ pc = "fetch"
    /\ j <= Len(batch)
    /\ \E ok \in Outcomes :
        IF ok
        THEN /\ vuln' = [fetchVulnerability(batch[j])
                            EXCEPT !.Modified = records[batch[j]].Modified]
             /\ pc' = "classify"
             /\ log' = Append(log, Event("fetch", batch[j]))
             /\ j' = j
        ELSE /\ log' = Append(log, Event("fetchfail", batch[j]))
             /\ j' = j + 1
             /\ UNCHANGED <<vuln, pc>>
    /\ UNCHANGED <<parseVars, cacheVars, classifierVars>>
    /\ UNCHANGED <<configVars, classifyVars, storeVars, runVars, batch, i, finalBatch, ctxDone, err,
                   metricsVars>>

\* processBatch returns nil (line 323), back in ProcessVulnerabilities at lines
\* 106-115 (a full batch) or 123-127 (the final batch).
BatchDone ==
    /\ pc = "fetch"
    /\ j > Len(batch)
    /\ IF finalBatch
       THEN /\ pc' = "done"
            /\ err' = "none"
            /\ UNCHANGED <<batch, i>>
       ELSE /\ batch' = <<>>
            /\ Select
    /\ UNCHANGED <<parseVars, cacheVars, classifierVars>>
    /\ UNCHANGED <<configVars, classifyVars, storeVars, runVars, j, finalBatch, vuln, ctxDone,
                   metricsVars, log>>

\* validateClassification, lines 158-165: the vocabulary of each enumerated field.
validValues ==
    [verifiability |-> {"verifiable", "non-verifiable", "partially-verifiable"},
     exploitability_context |-> {"direct-dependency", "transitive-dependency",
                                 "development-only", "runtime-critical"},
     attack_vector |-> {"user-input-required", "network-accessible", "local-only",
                        "configuration-dependent"},
     impact_scope |-> {"data-confidentiality", "data-integrity", "system-availability",
                       "code-execution", "privilege-escalation"},
     remediation_complexity |-> {"simple-update", "breaking-change", "no-fix-available",
                                 "workaround-available", "architecture-change"},
     temporal_classification |-> {"zero-day", "active-exploitation", "stable-mature",
                                  "legacy"}]

\* A Classification with every enumerated field in its vocabulary.
ValidClassification ==
    [verifiability |-> "verifiable", exploitability_context |-> "runtime-critical",
     attack_vector |-> "network-accessible", impact_scope |-> "code-execution",
     remediation_complexity |-> "simple-update", temporal_classification |-> "legacy"]

\* What ChatStructured may unmarshal from the model's answer: the valid
\* classification, and the same with one enumerated field absent ("", the zero value
\* of a Go string) or outside its vocabulary.
Responses ==
    {ValidClassification} \cup
    { [ValidClassification EXCEPT ![f] = v] : f \in DOMAIN validValues, v \in {"", "unknown"} }

\* The error of validateClassification for one field (lines 177-191): the field
\* and the allowed values its message names, "missing required field: <field>" or
\* "invalid value for <field>: <value> (valid: <allowed values>)".
FieldError(c, f) ==
    IF c[f] = "" THEN [field |-> f, kind |-> "missing", valid |-> {}]
    ELSE IF c[f] \notin validValues[f]
         THEN [field |-> f, kind |-> "invalid", valid |-> validValues[f]]
    ELSE NoError

\* validateClassification without the check of temporal_classification.
validateClassification_FiveFields(c) ==
    LET errors == { FieldError(c, f) : f \in DOMAIN validValues \ {"temporal_classification"} }
                  \ {NoError}
    IN  IF errors = {} THEN {NoError} ELSE errors

\* validateClassification, lines 157-195: the errors it may return. The fields are
\* visited in the order of a Go map iteration, which the language leaves open, and
\* the first offending field ends the visit: any offending field may be the one
\* reported.
validateClassification(c) ==
    LET errors == { FieldError(c, f) : f \in DOMAIN validValues } \ {NoError}
    IN  IF errors = {} THEN {NoError} ELSE errors

\* processVulnerability, lines 108-113, and Classifier.Classify, lines 64-111: the
\* model request (ok: ChatStructured returned no error), the validation of what it
\* returned; an error of either is returned by processVulnerability.
Classify ==
    /\ pc = "classify"
    /\ \E ok \in Outcomes :
        IF ok
        THEN \E r \in Responses : \E verr \in validateClassification(r) :
                /\ response' = r
                /\ IF verr = NoError
                   THEN /\ classification' = r
                        /\ pc' = "store"
                        /\ log' = Append(log, Event("classify", batch[j]))
                        /\ err' = err
                   ELSE /\ classification' = NoClassification
                        /\ ReturnError
                        /\ log' = Append(log, Event("classifyfail", batch[j]))
        ELSE /\ response' = NoClassification
             /\ classification' = NoClassification
             /\ ReturnError
             /\ log' = Append(log, Event("classifyfail", batch[j]))
    /\ UNCHANGED <<parseVars, cacheVars, classifierVars>>
    /\ UNCHANGED <<configVars, storeVars, runVars, batch, i, j, finalBatch, vuln, ctxDone,
                   metricsVars>>

\* StoreClassification advancing the watermark together with the classification.
StoreClassification_WritesWatermark ==
    /\ pc = "store"
    /\ \E ok \in Outcomes :
        IF ok
        THEN /\ classifications' = classifications \cup {vuln.ID}
             /\ lastProcessedTimestamp' = vuln.Modified
             /\ pc' = "update"
             /\ log' = Append(log, Event("store", batch[j]))
             /\ err' = err
        ELSE /\ ReturnError
             /\ log' = Append(log, Event("storefail", batch[j]))
             /\ UNCHANGED <<classifications, lastProcessedTimestamp>>
    /\ UNCHANGED <<parseVars, cacheVars, classifierVars>>
    /\ UNCHANGED <<configVars, classifyVars, runVars, batch, i, j, finalBatch, vuln, ctxDone,
                   metricsVars>>

\* processVulnerability, lines 115-119, and FirestoreStorage.StoreClassification.
StoreClassification ==
    /\ pc = "store"
    /\ \E ok \in Outcomes :
        IF ok
        THEN /\ classifications' = classifications \cup {vuln.ID}
             /\ pc' = "update"
             /\ log' = Append(log, Event("store", batch[j]))
             /\ err' = err
        ELSE /\ ReturnError
             /\ log' = Append(log, Event("storefail", batch[j]))
             /\ UNCHANGED classifications
    /\ UNCHANGED <<parseVars, cacheVars, classifierVars>>
    /\ UNCHANGED <<configVars, classifyVars, lastProcessedTimestamp, runVars, batch, i, j,
                   finalBatch, vuln, ctxDone, metricsVars>>

\* UpdateLastProcessedTimestamp whose error is logged and not returned.
UpdateLastProcessedTimestamp_ErrorIgnored ==
    /\ pc = "update"
    /\ \E ok \in Outcomes :
        /\ IF ok
           THEN /\ lastProcessedTimestamp' = vuln.Modified
                /\ log' = Append(log, Event("update", batch[j]))
           ELSE /\ log' = Append(log, Event("updatefail", batch[j]))
                /\ UNCHANGED lastProcessedTimestamp
        /\ totalProcessingTimeMs' = totalProcessingTimeMs + ProcessingTimeMs(batch[j])
        /\ totalTokens' = totalTokens + TotalTokens(batch[j])
        /\ processedCount' = processedCount + 1
        /\ pc' = "fetch"
        /\ j' = j + 1
        /\ err' = err
    /\ UNCHANGED <<parseVars, cacheVars, classifierVars>>
    /\ UNCHANGED <<configVars, classifyVars, classifications, runVars, batch, i, finalBatch, vuln,
                   ctxDone>>

\* processVulnerability, lines 121-148, and
\* FirestoreStorage.UpdateLastProcessedTimestamp; then processBatch's next iteration.
UpdateLastProcessedTimestamp ==
    /\ pc = "update"
    /\ \E ok \in Outcomes :
        IF ok
        THEN /\ lastProcessedTimestamp' = vuln.Modified
             /\ totalProcessingTimeMs' = totalProcessingTimeMs + ProcessingTimeMs(batch[j])
             /\ totalTokens' = totalTokens + TotalTokens(batch[j])
             /\ processedCount' = processedCount + 1
             /\ log' = Append(log, Event("update", batch[j]))
             /\ pc' = "fetch"
             /\ j' = j + 1
             /\ err' = err
        ELSE /\ ReturnError
             /\ log' = Append(log, Event("updatefail", batch[j]))
             /\ UNCHANGED <<lastProcessedTimestamp, metricsVars, j>>
    /\ UNCHANGED <<parseVars, cacheVars, classifierVars>>
    /\ UNCHANGED <<configVars, classifyVars, classifications, runVars, batch, i, finalBatch, vuln,
                   ctxDone>>

Next ==
    \/ Start
    \/ Cancel
    \/ LoopStep
    \/ LoopEnd
    \/ FetchVulnerability
    \/ BatchDone
    \/ Classify
    \/ StoreClassification
    \/ UpdateLastProcessedTimestamp

Spec == Init /\ [][Next]_vars

-----------------------------------------------------------------------------
\* The pipeline on the two-row index of the end-to-end example.

\* "2024-01-01T00:00:00Z" and "2024-01-02T00:00:00Z", byte by byte.
ExampleT1 == <<50, 48, 50, 52, 45, 48, 49, 45, 48, 49, 84, 48, 48, 58, 48, 48, 58, 48, 48, 90>>
ExampleT2 == <<50, 48, 50, 52, 45, 48, 49, 45, 48, 50, 84, 48, 48, 58, 48, 48, 58, 48, 48, 90>>

\* The index: row 1 is npm/GHSA-aaaa-1111-2222, row 2 is npm/GHSA-bbbb-3333-4444.
ExampleIndex == <<CSVRecord(1, ExampleT1, "npm"), CSVRecord(2, ExampleT2, "npm")>>

\* -batch 10.
ExampleBatchSizes == {10}

\* The store is empty, or holds what a run that processed the first row left.
InitExample ==
    /\ ecosystem \in EcosystemFilters
    /\ records = ExampleIndex
    /\ \/ classifications = {} /\ lastProcessedTimestamp = <<>>
       \/ classifications = {1} /\ lastProcessedTimestamp = ExampleT1
    /\ IdleRun
    /\ NoParse
    /\ NoCache
    /\ NoClassifier

StartExample == StartRun(ExampleBatchSizes) /\ UNCHANGED previous

NextExample ==
    \/ StartExample
    \/ Cancel
    \/ LoopStep
    \/ LoopEnd
    \/ FetchVulnerability
    \/ BatchDone
    \/ Classify
    \/ StoreClassification
    \/ UpdateLastProcessedTimestamp

SpecExample == InitExample /\ [][NextExample]_vars

-----------------------------------------------------------------------------
\* The feed reader on every payload of at most MaxRows rows.

\* The pipeline is not running: no index, an empty store, no run.
NoPipeline ==
    /\ ecosystem = ""
    /\ records = <<>>
    /\ classifications = {}
    /\ lastProcessedTimestamp = <<>>
    /\ IdleRun

InitParse ==
    /\ data \in Payloads(MaxRows)
    /\ parseResult = NotParsed
    /\ NoPipeline
    /\ NoCache
    /\ NoClassifier

\* parseCSV on the payload.
ParseCSV ==
    /\ parseResult = NotParsed
    /\ parseResult' = parseCSV(data)
    /\ UNCHANGED <<data, pipelineVars, cacheVars, classifierVars>>

NextParse == ParseCSV

SpecParse == InitParse /\ [][NextParse]_vars

-----------------------------------------------------------------------------
\* The feed cache: downloadCSV with its cache files, the clock and the feed.

\* Expired for an entry that never expires.
Expired_Never(meta) == FALSE

\* loadFromCache, lines 173-178: the entry is older than the configured TTL.
\* time.Now().After(expireTime) is false at the very hour of the expiry.
Expired(meta) == cacheTTL > 0 /\ now > meta.CachedAt + cacheTTL

\* loadFromCache returning whatever the payload file yields once the metadata is
\* in date.
loadFromCache_TrustsMetadata ==
    IF ~cacheFile.exists \/ ~metaFile.exists THEN [hit |-> FALSE, records |-> <<>>]
    ELSE IF ~metaFile.valid THEN [hit |-> FALSE, records |-> <<>>]
    ELSE IF Expired(metaFile) THEN [hit |-> FALSE, records |-> <<>>]
    ELSE [hit |-> TRUE, records |-> parseCSV(cacheFile.rows).records]

\* loadFromCache, lines 151-192: the records of the cached payload (hit), or an
\* error (miss) when a file is missing, the metadata does not unmarshal, the entry
\* is expired or the payload does not parse.
loadFromCache ==
    IF ~cacheFile.exists \/ ~metaFile.exists THEN [hit |-> FALSE, records |-> <<>>]
    ELSE IF ~metaFile.valid THEN [hit |-> FALSE, records |-> <<>>]
    ELSE IF Expired(metaFile) THEN [hit |-> FALSE, records |-> <<>>]
    ELSE IF ~cacheFile.valid \/ parseCSV(cacheFile.rows).err # "nil"
         THEN [hit |-> FALSE, records |-> <<>>]
    ELSE [hit |-> TRUE, records |-> parseCSV(cacheFile.rows).records]

\* The steps of downloadAndCache and saveToCache that may fail, in their order:
\* os.MkdirAll, the request (client.Do and the status), os.CreateTemp, io.Copy
\* reading the body, io.Copy writing the temporary file, os.Rename, os.WriteFile of
\* the metadata. os.MkdirAll returns nil for a directory that exists.
FailingSteps ==
    {"none", "request", "createtemp", "read", "write", "rename", "metadata"}
        \cup (IF cacheDir THEN {} ELSE {"mkdir"})

\* The result of downloadCSV when it returns an error after that many requests.
FetchError(step, calls) ==
    [hit |-> FALSE, calls |-> calls, failed |-> step, err |-> "error", records |-> <<>>]

\* downloadAndCache copying the response body straight to the cache path.
downloadAndCache_InPlace(fail) ==
    IF fail = "mkdir"
    THEN /\ fetched' = FetchError(fail, 0)
         /\ UNCHANGED <<cacheDir, cacheFile, metaFile, saved>>
    ELSE /\ cacheDir' = TRUE
         /\ IF fail \in {"request", "createtemp"}
            THEN /\ fetched' = FetchError(fail, 1)
                 /\ UNCHANGED <<cacheFile, metaFile, saved>>
            ELSE IF fail \in {"read", "write"}
            THEN /\ fetched' = FetchError(fail, 1)
                 /\ cacheFile' = CorruptFile
                 /\ UNCHANGED <<metaFile, saved>>
            ELSE LET parsed == parseCSV(upstream)
                 IN  /\ cacheFile' = PayloadFile(upstream)
                     /\ IF parsed.err # "nil"
                        THEN /\ fetched' = FetchError("parse", 1)
                             /\ UNCHANGED <<metaFile, saved>>
                        ELSE /\ fetched' = [hit |-> FALSE, calls |-> 1, failed |-> fail,
                                            err |-> "nil", records |-> parsed.records]
                             /\ IF fail = "metadata"
                                THEN /\ metaFile' \in {metaFile, CorruptFile}
                                     /\ UNCHANGED saved
                                ELSE /\ metaFile' = CacheMetadata(now, cacheTTL)
                                     /\ saved' = [done |-> TRUE, at |-> now,
                                                  records |-> parsed.records]

\* downloadAndCache, lines 194-246, and saveToCache, lines 282-307, when the step
\* `fail` fails ("none": no step fails; parseCSV fails by the payload alone).
downloadAndCache(fail) ==
    IF fail = "mkdir"
    THEN /\ fetched' = FetchError(fail, 0)
         /\ UNCHANGED <<cacheDir, cacheFile, metaFile, saved>>
    ELSE /\ cacheDir' = TRUE
         /\ IF fail \in {"request", "createtemp", "read", "write"}
            THEN /\ fetched' = FetchError(fail, 1)
                 /\ UNCHANGED <<cacheFile, metaFile, saved>>
            ELSE LET parsed == parseCSV(upstream)
                 IN  IF parsed.err # "nil"
                     THEN /\ fetched' = FetchError("parse", 1)
                          /\ UNCHANGED <<cacheFile, metaFile, saved>>
                     ELSE /\ fetched' = [hit |-> FALSE, calls |-> 1, failed |-> fail,
                                         err |-> "nil", records |-> parsed.records]
                          /\ IF fail = "rename"
                             THEN UNCHANGED <<cacheFile, metaFile, saved>>
                             ELSE /\ cacheFile' = PayloadFile(upstream)
                                  /\ IF fail = "metadata"
                                     THEN /\ metaFile' \in {metaFile, CorruptFile}
                                          /\ UNCHANGED saved
                                     ELSE /\ metaFile' = CacheMetadata(now, cacheTTL)
                                          /\ saved' = [done |-> TRUE, at |-> now,
                                                       records |-> parsed.records]

\* saveToCache, line 284: os.Rename is reached and succeeds, so that the downloaded
\* payload is at the cache path.
Renamed(fail) ==
    /\ fail \in {"none", "metadata"}
    /\ parseCSV(upstream).err = "nil"

\* downloadAndCache without the deferred os.Remove.
TempFile_NoDefer(fail) ==
    LET created == IF fail \in {"mkdir", "request", "createtemp"} THEN 0 ELSE 1
        renamed == IF Renamed(fail) THEN 1 ELSE 0
    IN  tmpFiles' = (tmpFiles + created) - renamed

\* downloadAndCache, lines 215-220, and saveToCache, line 284: os.CreateTemp makes
\* the temporary file once the request succeeded; os.Rename moves it to the cache
\* path; the deferred os.Remove deletes it when it is still there at the return.
TempFile(fail) ==
    LET created == IF fail \in {"mkdir", "request", "createtemp"} THEN 0 ELSE 1
        renamed == IF Renamed(fail) THEN 1 ELSE 0
        removed == created - renamed
    IN  tmpFiles' = ((tmpFiles + created) - renamed) - removed

\* downloadCSV, lines 130-143: the cached index when loadFromCache returns no
\* error, else downloadAndCache.
DownloadCSV ==
    /\ fetches < MaxFetches
    /\ fetches' = fetches + 1
    /\ IF loadFromCache.hit
       THEN /\ fetched' = [hit |-> TRUE, calls |-> 0, failed |-> "none", err |-> "nil",
                           records |-> loadFromCache.records]
            /\ UNCHANGED <<cacheDir, cacheFile, metaFile, saved, downloadedAt, tmpFiles>>
       ELSE \E fail \in FailingSteps :
                /\ downloadAndCache(fail)
                /\ downloadedAt' = IF Renamed(fail) THEN now ELSE downloadedAt
                /\ TempFile(fail)
    /\ UNCHANGED <<cache_ttl, cacheTTL, now, upstream, pipelineVars, parseVars, classifierVars>>

\* An hour passes.
Tick ==
    /\ now < MaxClock
    /\ now' = now + 1
    /\ UNCHANGED <<cache_ttl, cacheTTL, cacheDir, cacheFile, metaFile, upstream, fetches, fetched,
                   saved, downloadedAt, tmpFiles, pipelineVars, parseVars, classifierVars>>

\* The feed publishes another index.
Publish ==
    /\ upstream' \in FeedPayloads \ {upstream}
    /\ UNCHANGED <<cache_ttl, cacheTTL, now, cacheDir, cacheFile, metaFile, fetches, fetched,
                   saved, downloadedAt, tmpFiles, pipelineVars, parseVars, classifierVars>>

\* Any cache directory an earlier process may have left: no files, or a payload
\* file and a metadata file, each possibly missing or damaged, the metadata written
\* at hour 0 under any TTL.
InitCache ==
    /\ cacheTTL \in 0..MaxTTL
    /\ cache_ttl = cacheTTL
    /\ now = 0
    /\ cacheDir \in BOOLEAN
    /\ cacheFile \in {NoFile, CorruptFile} \cup { PayloadFile(p) : p \in FeedPayloads }
    /\ metaFile \in {NoFile, CorruptFile} \cup { CacheMetadata(0, h) : h \in 0..MaxTTL }
    /\ cacheFile.exists \/ metaFile.exists => cacheDir
    /\ upstream \in FeedPayloads
    /\ fetches = 0
    /\ fetched = NoFetch
    /\ saved = NotSaved
    /\ downloadedAt = 0
    /\ tmpFiles = 0
    /\ NoPipeline
    /\ NoParse
    /\ NoClassifier

NextCache ==
    \/ DownloadCSV
    \/ Tick
    \/ Publish

SpecCache == InitCache /\ [][NextCache]_vars

-----------------------------------------------------------------------------
\* The feed cache of a process configured through config.Load.

\* config.Load, line 65: the default of OSV.CacheTTL, in hours.
DefaultCacheTTL == 24

\* config.Load, lines 64-66: OSV.CacheTTL for the cache_ttl of the file; a key
\* that is omitted unmarshals to 0.
Load(ttl) == IF ttl = 0 THEN DefaultCacheTTL ELSE ttl

\* The ages, in hours, of the entry the process finds: up to MaxAge hours past the
\* default TTL.
MaxAge == 2
Ages == 0..(DefaultCacheTTL + MaxAge)

\* The cache holds the entry a process of the same configuration stored at hour 0,
\* and this process starts when the entry has any of the ages.
InitConfig ==
    /\ cache_ttl \in 0..MaxTTL
    /\ cacheTTL = Load(cache_ttl)
    /\ now \in Ages
    /\ cacheDir = TRUE
    /\ cacheFile \in { PayloadFile(p) : p \in FeedPayloads }
    /\ metaFile = CacheMetadata(0, cacheTTL)
    /\ upstream \in FeedPayloads
    /\ fetches = 0
    /\ fetched = NoFetch
    /\ saved = NotSaved
    /\ downloadedAt = 0
    /\ tmpFiles = 0
    /\ NoPipeline
    /\ NoParse
    /\ NoClassifier

NextConfig ==
    \/ DownloadCSV
    \/ Publish

SpecConfig == InitConfig /\ [][NextConfig]_vars

-----------------------------------------------------------------------------
\* The classifier's functions on their inputs: validateClassification on a
\* classification, ChatStructured on the text of an answer,
\* buildClassificationPrompt on a record.

\* The enum tags of the fields of the Classification struct, lines 19-34.
enum ==
    [verifiability |-> {"verifiable", "non-verifiable", "partially-verifiable"},
     exploitability_context |-> {"direct-dependency", "transitive-dependency",
                                 "development-only", "runtime-critical"},
     attack_vector |-> {"user-input-required", "network-accessible", "local-only",
                        "configuration-dependent"},
     impact_scope |-> {"data-integrity", "data-confidentiality", "system-availability",
                       "code-execution", "privilege-escalation"},
     remediation_complexity |-> {"simple-update", "breaking-change", "no-fix-available",
                                 "workaround-available", "architecture-change"},
     temporal_classification |-> {"zero-day", "active-exploitation", "stable-mature",
                                  "legacy"}]

\* What a field of an unmarshalled classification may hold: any declared value of
\* any field, the zero value, a value of no vocabulary, and declared values in
\* another letter case.
FieldValues ==
    UNION { enum[f] : f \in DOMAIN enum } \cup UNION { validValues[f] : f \in DOMAIN validValues }
        \cup {"", "unknown", "Verifiable", "LEGACY"}

\* The classifications that differ from a valid one in at most two fields.
Candidates ==
    { [ValidClassification EXCEPT ![f] = v, ![g] = w] :
        f \in DOMAIN validValues, g \in DOMAIN validValues, v \in FieldValues, w \in FieldValues }

\* Classify, line 90: validateClassification on the classification.
Validate ==
    /\ candidate # NoClassification
    /\ verdict = NotValidated
    /\ verdict' \in validateClassification(candidate)
    /\ UNCHANGED <<content, structured, candidate, osv, prompt>>
    /\ UNCHANGED <<pipelineVars, parseVars, cacheVars>>

\* The text of an answer, token by token: " " is white space, "w" a word of prose,
\* and Object the three tokens of the JSON object of a valid classification.
MaxProse == 2
Object == <<"{", "fields", "}">>
Prose == UNION { [1..n -> {" ", "w"}] : n \in 0..MaxProse }

\* The answers made of text, the object, and text.
Contents == { before \o Object \o after : before \in Prose, after \in Prose }

\* json.Unmarshal([]byte(response.Content), result), llm.go line 592: the text
\* must be one JSON value with nothing but white space around it.
Unmarshal(text) ==
    IF \E p \in 1..Len(text) :
          /\ p + 2 <= Len(text)
          /\ SubSeq(text, p, p + 2) = Object
          /\ \A q \in (1..Len(text)) \ (p..(p + 2)) : text[q] = " "
    THEN [err |-> "nil", Result |-> ValidClassification]
    ELSE [err |-> "unmarshaling structured response", Result |-> NoClassification]

\* AnthropicClient.ChatStructured, lines 580-602, on the content of the response.
ChatStructured ==
    /\ content # <<>>
    /\ structured = NotAsked
    /\ structured' = Unmarshal(content)
    /\ UNCHANGED <<content, candidate, verdict, osv, prompt>>
    /\ UNCHANGED <<pipelineVars, parseVars, cacheVars>>

\* The lists of a record: references are drawn from two values, in any order; the
\* other lists hold their positions. Details, a string, is empty or one byte.
MaxReferences == 4
MaxListed == 4
Records ==
    [Details : {<<>>, <<100>>},
     Aliases : { [n \in 1..m |-> n] : m \in 0..MaxListed },
     Affected : { [n \in 1..m |-> n] : m \in 0..MaxListed },
     References : UNION { [1..m -> 1..2] : m \in 0..MaxReferences },
     Severity : { [n \in 1..m |-> n] : m \in 0..MaxListed }]

\* A line of the prompt: what it is about, and the values it prints.
Line(section, item) == [section |-> section, item |-> item]

\* One line for each item of a list.
Lines(section, items) == [n \in 1..Len(items) |-> Line(section, <<items[n]>>)]

\* The lines of the references without any limit.
ReferenceLines_All(refs) == Lines("reference", refs)

\* buildClassificationPrompt, lines 138-142: the loop over the references writes
\* a line when i < 3, i counting from 0.
ReferenceLines(refs) ==
    LET listed == { n \in 1..Len(refs) : n - 1 < 3 }
    IN  [n \in 1..Cardinality(listed) |-> Line("reference", <<refs[n]>>)]

\* buildClassificationPrompt, lines 115-155.
buildClassificationPrompt(v) ==
    <<Line("intro", <<>>), Line("id", <<>>), Line("summary", <<>>)>>
    \o (IF v.Details # <<>> THEN <<Line("details", v.Details)>> ELSE <<>>)
    \o (IF Len(v.Aliases) > 0 THEN <<Line("aliases", v.Aliases)>> ELSE <<>>)
    \o (IF Len(v.Affected) > 0
        THEN <<Line("affected packages", <<>>)>> \o Lines("affected", v.Affected)
        ELSE <<>>)
    \o (IF Len(v.References) > 0
        THEN <<Line("references", <<>>)>> \o ReferenceLines(v.References)
        ELSE <<>>)
    \o (IF Len(v.Severity) > 0
        THEN <<Line("severity scores", <<>>)>> \o Lines("severity", v.Severity)
        ELSE <<>>)

\* Classify, line 67: the prompt of the record.
BuildPrompt ==
    /\ candidate = NoClassification
    /\ content = <<>>
    /\ prompt = <<>>
    /\ prompt' = buildClassificationPrompt(osv)
    /\ UNCHANGED <<content, structured, candidate, verdict, osv>>
    /\ UNCHANGED <<pipelineVars, parseVars, cacheVars>>

\* One of the three functions has its argument.
InitClassifier ==
    /\ \/ candidate \in Candidates /\ content = <<>> /\ osv = NoRecord
       \/ candidate = NoClassification /\ content \in Contents /\ osv = NoRecord
       \/ candidate = NoClassification /\ content = <<>> /\ osv \in Records
    /\ verdict = NotValidated
    /\ structured = NotAsked
    /\ prompt = <<>>
    /\ NoPipeline
    /\ NoParse
    /\ NoCache

NextClassifier ==
    \/ Validate
    \/ ChatStructured
    \/ BuildPrompt

SpecClassifier == InitClassifier /\ [][NextClassifier]_vars

-----------------------------------------------------------------------------
\* Vocabulary of the properties.

Last(s) == s[Len(s)]

\* This step made a call that the log records with one of these kinds.
Called(kinds) == Len(log') = Len(log) + 1 /\ Last(log').kind \in kinds

\* The greatest string of a set, the empty string for the empty set.
RECURSIVE StrMax(_)
StrMax(S) ==
    IF S = {} THEN <<>>
    ELSE LET x == CHOOSE y \in S : TRUE
             m == StrMax(S \ {x})
         IN IF StrLeq(x, m) THEN m ELSE x

\* The row passes the configured group filter.
PassesGroupFilter(k) == ecosystem = "" \/ records[k].Ecosystem = ecosystem

\* The row is one a run started at watermark w has to consider.
Survives(k, w) ==
    /\ w = <<>> \/ StrLess(w, records[k].Modified)
    /\ PassesGroupFilter(k)

\* The rows whose detail fetch, classification or store the current run attempted.
Attempted == Logged("fetch") \cup Logged("fetchfail")
Classified == Logged("classify") \cup Logged("classifyfail")

\* The current run is in the resuming state: the flag was given and the watermark read.
Resuming == pc # "idle" /\ resume /\ lastTimestamp = startTimestamp

\* The current run has returned.
RunEnded == pc = "done"

-----------------------------------------------------------------------------
\* C1. No gap: every index row that passes the group filter and whose `modified`
\* is <= the stored watermark has a stored classification.
C1_NoGap ==
    \A k \in 1..Len(records) :
        PassesGroupFilter(k) /\ StrLeq(records[k].Modified, lastProcessedTimestamp)
            => records[k].VulnID \in classifications

\* C2. The watermark is written only by UpdateLastProcessedTimestamp, called right
\* after StoreClassification succeeded for the same record and with that record's
\* `modified`; a failing Classify or StoreClassification leaves the watermark alone.
C2_WatermarkAfterStore ==
    [][ /\ Called({"update", "updatefail"}) =>
              /\ Len(log) > 0
              /\ Last(log) = Event("store", Last(log').rec)
              /\ records[Last(log').rec].VulnID \in classifications
        /\ lastProcessedTimestamp' # lastProcessedTimestamp =>
              /\ Called({"update"})
              /\ lastProcessedTimestamp' = records[Last(log').rec].Modified
        /\ Called({"classifyfail", "storefail"}) =>
              lastProcessedTimestamp' = lastProcessedTimestamp ]_vars

\* C2 witness: a record was stored and watermarked, and a later store failed.
C2_Witness == Logged("update") # {} /\ Logged("storefail") # {}

\* C3. Every write of the watermark stores a value >= the value stored before.
C3_WatermarkMonotonic ==
    [][ StrLeq(lastProcessedTimestamp, lastProcessedTimestamp') ]_vars

\* C4. When a run ends, the stored watermark is the maximum `modified` among the
\* records whose classification the run stored.
C4_WatermarkIsMaxStored ==
    RunEnded /\ Logged("store") # {} =>
        lastProcessedTimestamp = StrMax({ records[k].Modified : k \in Logged("store") })

\* C5. After a run that completed without failure, a resumed run over the same
\* index classifies no record.
C5_SecondRunIdle == previousClean /\ Resuming => Classified = {}

\* C6. A resumed run never classifies a record that an earlier run stored and
\* watermarked.
C6_NoReclassification == Resuming => Classified \cap completedEarlier = {}

\* C7. A run started at watermark W fetches, classifies and stores only rows with
\* `modified` > W (every row when W is empty) of the configured group, and a run
\* that returns nil has attempted every such row.
C7_FilterSemantics ==
    /\ \A k \in Attempted \cup Classified \cup Logged("store") \cup Logged("storefail")
                 \cup Logged("update") \cup Logged("updatefail")
                 \cup { batch[n] : n \in 1..Len(batch) } :
          Survives(k, lastTimestamp)
    /\ RunEnded /\ err = "none" =>
          Attempted = { k \in 1..Len(records) : Survives(k, lastTimestamp) }

\* C7 witness: a completed resumed run that skipped one row by its timestamp and
\* attempted another.
C7_Witness ==
    /\ RunEnded /\ err = "none" /\ lastTimestamp # <<>>
    /\ Attempted # {}
    /\ \E k \in 1..Len(records) :
          PassesGroupFilter(k) /\ StrLeq(records[k].Modified, lastTimestamp)

\* C8. A failure of Classify for one record does not end the run with an error.
C8_ClassifyFailureSkipped ==
    Len(log) > 0 /\ Last(log).kind = "classifyfail" => ~(RunEnded /\ err = "process")

\* C9. A failed detail fetch skips the record: processFunc is not called for it,
\* the store is not written, the flush goes on to the next record of the batch and
\* the run does not fail.
C9_FetchFailureIsolated ==
    /\ [](Logged("fetchfail") \cap
            (Classified \cup Logged("store") \cup Logged("storefail")
               \cup Logged("update") \cup Logged("updatefail")) = {})
    /\ [][ Called({"fetchfail"}) =>
              /\ UNCHANGED <<classifications, lastProcessedTimestamp, processedCount>>
              /\ UNCHANGED <<batch, err>>
              /\ pc' = "fetch"
              /\ j' = j + 1 ]_vars

\* C9 witness: in a batch of two the first fetch failed and the second was made.
C9_Witness ==
    /\ Len(batch) = 2
    /\ Len(log) >= 2
    /\ log[1] = Event("fetchfail", batch[1])
    /\ log[2] = Event("fetch", batch[2])

\* C10. A failed store write ends the run with an error at once: after a failed
\* StoreClassification the store is as before, after a failed watermark write the
\* classification is stored and the watermark is as before, and in both cases no
\* further call is made in the run.
C10_WriteErrorFatal ==
    /\ [](\A n \in 1..Len(log) :
            log[n].kind \in {"storefail", "updatefail"} => n = Len(log))
    /\ [][ /\ Called({"storefail"}) =>
                 /\ pc' = "done" /\ err' = "process"
                 /\ UNCHANGED <<classifications, lastProcessedTimestamp>>
           /\ Called({"updatefail"}) =>
                 /\ pc' = "done" /\ err' = "process"
                 /\ UNCHANGED <<classifications, lastProcessedTimestamp>>
                 /\ records[Last(log').rec].VulnID \in classifications ]_vars

\* C10 witness: the watermark write failed for the first record of a run that had
\* another record to handle.
C10_Witness ==
    /\ RunEnded /\ err = "process"
    /\ Last(log).kind = "updatefail"
    /\ \E k \in 1..Len(records) : k # Last(log).rec /\ Survives(k, lastTimestamp)
                                   /\ k \notin Attempted

-----------------------------------------------------------------------------
\* Every enumerated field is present and in its vocabulary.
WellFormed(c) == \A f \in DOMAIN validValues : c[f] # "" /\ c[f] \in validValues[f]

\* The model answered the last Classify with a classification that is not valid.
InvalidAnswer(r) == r # NoClassification /\ ~WellFormed(r)

\* C11: a classification with an enumerated field missing or outside its vocabulary
\* is rejected by Classify and never reaches the store: the classification handed to
\* StoreClassification is always valid; the Classify that received an invalid answer
\* fails, ends the run with the processing error, leaves the stored classifications,
\* the watermark and the metrics counter as they were, and is the last call of the
\* run, so that neither store write is made for that record.
C11_InvalidClassificationRejected ==
    /\ [](/\ pc \in {"store", "update"} => WellFormed(classification)
          /\ \A n \in 1..Len(log) : log[n].kind = "classifyfail" => n = Len(log))
    /\ [][Called({"classify", "classifyfail"}) /\ InvalidAnswer(response')
            => /\ Last(log').kind = "classifyfail"
               /\ pc' = "done" /\ err' = "process"
               /\ UNCHANGED <<classifications, lastProcessedTimestamp, processedCount>>]_vars

\* A run ended by the rejection of an invalid answer, after an earlier record of the
\* run was stored and counted.
C11_Witness ==
    /\ RunEnded /\ err = "process"
    /\ InvalidAnswer(response)
    /\ Last(log).kind = "classifyfail"
    /\ processedCount = 1
    /\ Cardinality(classifications) = 1

\* C15: the run resumes (starts from a non-empty watermark) only when the resume
\* flag is set and the stored watermark was read without error, and it then starts
\* from the stored watermark; without the flag it starts from scratch whatever the
\* store holds; when the read fails or no watermark is stored it starts from scratch
\* with the empty watermark and is not aborted: a run that starts goes on to the loop
\* over the index unless the index itself could not be fetched.
C15_ResumeStateMachine ==
    /\ [](pc # "idle" =>
            /\ (lastTimestamp # <<>> => resume /\ ~getErr)
            /\ (resume /\ ~getErr => lastTimestamp = startTimestamp)
            /\ (~resume \/ getErr \/ startTimestamp = <<>> => lastTimestamp = <<>>)
            /\ (getErr => resume))
    /\ [][runs' # runs => (pc' = "loop" /\ err' = "none")
                               \/ (pc' = "done" /\ err' = "download")]_vars

\* The read of a stored watermark failed and the run is processing from scratch.
C15_Witness ==
    /\ getErr /\ startTimestamp # <<>>
    /\ lastTimestamp = <<>>
    /\ Logged("store") # {}

\* A flush (processBatch) is in progress: a record of the batch is still to be handled.
Flushing == pc \in {"classify", "store", "update"} \/ (pc = "fetch" /\ j <= Len(batch))

\* The step ends an iteration of the loop over the index for a record that was added
\* to the batch, where the cancellation signal is looked at: after the append when
\* the batch is not yet full, or after the flush of a full batch.
ChecksSignal ==
    \/ pc = "loop" /\ i <= Len(records) /\ batch' # batch /\ pc' # "fetch"
    \/ pc = "fetch" /\ j > Len(batch) /\ ~finalBatch

\* C16: cancellation is cooperative. A run ends with the cancellation's cause only
\* at a check between batches, never between the records of a batch being flushed,
\* and that step makes no call; a check that finds the signal set ends the run with
\* the cancellation's cause itself (neither success nor the processing error); a
\* flush that has begun is left only by the first hard failure (the processing
\* error) or by its completion, when every record of the batch has been attempted.
C16_CooperativeCancellation ==
    /\ [](pc = "fetch" => \A n \in 1..(j - 1) :
                             batch[n] \in Logged("fetch") \cup Logged("fetchfail"))
    /\ [][/\ (err' = "cancelled" /\ err # "cancelled"
                => ctxDone /\ ~Flushing /\ ChecksSignal /\ log' = log)
           /\ (ctxDone /\ ChecksSignal => pc' = "done" /\ err' = "cancelled")
           /\ (Flushing /\ ~Flushing'
                => \/ pc' = "done" /\ err' = "process" /\ Last(log').kind \in FailureKinds
                   \/ pc' = "fetch" /\ j' = Len(batch) + 1)]_vars

\* The signal was set during the flush of a full batch after its first record was
\* stored: the rest of the batch was attempted, and the check after the flush ended
\* the run with the cancellation's cause.
C16_Witness ==
    /\ RunEnded /\ err = "cancelled" /\ ctxDone
    /\ Logged("update") # {}
    /\ Logged("fetchfail") # {}

\* The run made no call that failed.
NoFailure == \A n \in 1..Len(log) : log[n].kind \notin FailureKinds

\* The positions in the log of the calls of StoreClassification.
StoreCalls == { n \in 1..Len(log) : log[n].kind \in {"store", "storefail"} }

C20_EndToEndExample ==
    /\ RunEnded /\ err = "none" /\ NoFailure
    /\ records = ExampleIndex /\ lastTimestamp = ExampleT1 /\ batchSize = 10
    => /\ log = <<Event("fetch", 2), Event("classify", 2), Event("store", 2),
                  Event("update", 2)>>
       /\ records[2].VulnID \in classifications
       /\ lastProcessedTimestamp = ExampleT2

\* The run of the example has returned.
C20_Witness ==
    /\ RunEnded /\ err = "none" /\ NoFailure
    /\ records = ExampleIndex /\ lastTimestamp = ExampleT1 /\ batchSize = 10
    /\ Logged("store") = {2}

-----------------------------------------------------------------------------
\* The rows of a payload that have two columns.
TwoColumnRows(rows) == SelectSeq(rows, LAMBDA row : Len(row) = 2)

\* The modified, group and record id of the records parse returned.
FeedRecords(rs) ==
    [n \in 1..Len(rs) |->
        [modified |-> rs[n].Modified, group |-> rs[n].Ecosystem, recordID |-> rs[n].VulnID]]

\* The path holds a separator, and p is the place of the first one.
FirstSeparator(path, p) ==
    /\ p \in 1..Len(path)
    /\ path[p] = Slash
    /\ \A q \in 1..(p - 1) : path[q] # Slash

\* What the feed reader is to yield for a sequence of two-column rows: in row
\* order, one record for each row whose path holds a separator.
RECURSIVE Yield(_)
Yield(rows) ==
    IF rows = <<>> THEN <<>>
    ELSE LET row == Head(rows)
             path == row[2]
         IN  IF \E p \in 1..Len(path) : path[p] = Slash
             THEN LET p == CHOOSE q \in 1..Len(path) : FirstSeparator(path, q)
                  IN  <<[modified |-> row[1],
                         group |-> [n \in 1..(p - 1) |-> path[n]],
                         recordID |-> [n \in 1..(Len(path) - p) |-> path[p + n]]]>>
                      \o Yield(Tail(rows))
             ELSE Yield(Tail(rows))

\* C18: parse skips a row whose column count is not two, raises no error for it and
\* the rows around it are parsed as if it were not there, also when the first row
\* has two columns and a later row has one or three.
C18_WrongColumnCountSkipped ==
    parseResult # NotParsed =>
        /\ parseResult.err = "nil"
        /\ parseResult.records = parseCSV(TwoColumnRows(data)).records

\* C19: for every sequence of two-column rows parse returns, without error and in
\* row order, one record per row whose path holds a "/", with modified the first
\* column, group the text before the first "/" and recordID the text after it; a
\* row whose path holds no "/" yields nothing.
C19_SplitOnFirstSeparator ==
    parseResult # NotParsed /\ TwoColumnRows(data) = data =>
        /\ parseResult.err = "nil"
        /\ FeedRecords(parseResult.records) = Yield(data)

\* The index of a row without separator followed by a row with two of them was
\* parsed into the one record of the second row.
C19_Witness ==
    /\ parseResult # NotParsed
    /\ Len(data) = 2 /\ TwoColumnRows(data) = data
    /\ data[1][2] = <<97, 98>>
    /\ data[2][2] = <<97, 47, 98, 47, 99>>
    /\ Len(parseResult.records) = 1
    /\ parseResult.records[1].VulnID = <<98, 47, 99>>

-----------------------------------------------------------------------------
\* The step is a call of downloadCSV.
Fetches == fetches' = fetches + 1

\* C12: a fetch that follows a fetch which populated the cache, within the TTL,
\* makes no network call and returns the records that fetch returned; a fetch after
\* the TTL has expired makes exactly one network call.
C12_CacheCorrectness ==
    [][Fetches /\ saved.done =>
        /\ (cacheTTL = 0 \/ now < saved.at + cacheTTL
                => /\ fetched'.calls = 0
                   /\ fetched'.err = "nil"
                   /\ fetched'.records = saved.records)
        /\ (cacheTTL > 0 /\ now > saved.at + cacheTTL => fetched'.calls = 1)]_vars

\* A fetch served from the cache an earlier fetch populated, hours later and after
\* the feed has published another index.
C12_Witness ==
    /\ saved.done /\ saved.at < now
    /\ fetched.hit /\ fetched.calls = 0
    /\ fetched.records = saved.records
    /\ parseCSV(upstream).records # saved.records

\* The cache entry is valid as the claim C13 defines it.
ValidEntry ==
    /\ cacheFile.exists /\ metaFile.exists
    /\ metaFile.valid
    /\ cacheFile.valid /\ parseCSV(cacheFile.rows).err = "nil"
    /\ metaFile.TTL > 0 => now < metaFile.CachedAt + metaFile.TTL

\* C13: loadFromCache reports a hit exactly when the payload file and the metadata
\* file both exist and parse and, when the TTL recorded in the metadata is greater
\* than 0, now < cachedAt + that TTL (an entry at now = cachedAt + TTL is expired);
\* with a recorded TTL of 0 the entry never expires.
C13_CacheHitIff == [][Fetches => (fetched'.hit <=> ValidEntry)]_vars

\* The steps of the cache layer among the steps of a download.
CacheSteps == {"mkdir", "createtemp", "write", "rename", "metadata"}

\* C14: whichever step of the cache layer fails (creating the cache directory,
\* creating or writing the temporary file, the rename, the write of the metadata),
\* a fetch of a feed that serves a payload that parses returns the records.
C14_CacheFailuresNotFatal ==
    [][Fetches /\ fetched'.failed \in CacheSteps /\ parseCSV(upstream).err = "nil"
          => fetched'.err = "nil" /\ fetched'.records = parseCSV(upstream).records]_vars

-----------------------------------------------------------------------------
\* The log kinds of a processFunc that returned an error.
ProcessFailures == {"classifyfail", "storefail", "updatefail"}

\* C21. A failure returned by processFunc for any record aborts the whole run: the
\* failed call is the last call of the run, the flush stands at that record, the run
\* has ended with the wrapped processing error, and so processFunc is invoked for no
\* later record of the batch or of a later batch.
C21_PerRecordFailureAborts ==
    \A n \in 1..Len(log) :
        log[n].kind \in ProcessFailures =>
            /\ n = Len(log)
            /\ pc = "done" /\ err = "process"
            /\ j <= Len(batch) /\ batch[j] = log[n].rec

\* C21 witness: the store write of a record failed while a later record of the same
\* batch was still to be handled.
C21_Witness ==
    /\ RunEnded /\ err = "process"
    /\ Len(log) > 0 /\ Last(log).kind = "storefail"
    /\ j < Len(batch)

-----------------------------------------------------------------------------
\* C22. The pipeline is strictly sequential: in the log of a run each classify
\* directly follows the fetch of the same record, each store its classify, each
\* watermark write its store, and a fetch begins only after the previous record's
\* watermark write (or its failed fetch); records are taken in index order, which is
\* the order of the batch and of the batches.
C22_StrictlySequential ==
    \A n \in 1..Len(log) :
        LET e == log[n]
        IN  /\ e.kind \in {"classify", "classifyfail"} =>
                  n > 1 /\ log[n - 1] = Event("fetch", e.rec)
            /\ e.kind \in {"store", "storefail"} =>
                  n > 1 /\ log[n - 1] = Event("classify", e.rec)
            /\ e.kind \in {"update", "updatefail"} =>
                  n > 1 /\ log[n - 1] = Event("store", e.rec)
            /\ e.kind \in {"fetch", "fetchfail"} /\ n > 1 =>
                  /\ log[n - 1].kind \in {"update", "fetchfail"}
                  /\ log[n - 1].rec < e.rec

\* C22 witness: two batches of one record each, both records handled to the end.
C22_Witness ==
    /\ batchSize = 1
    /\ Len(log) = 8
    /\ log[4] = Event("update", 1)
    /\ log[5] = Event("fetch", 2)
    /\ Last(log) = Event("update", 2)

-----------------------------------------------------------------------------
\* The steps of a download before the payload is in the temporary file and parsed.
DownloadSteps == {"request", "read", "write", "parse"}

\* C23. The cache path is only ever replaced by a payload that was downloaded
\* completely and parsed: a fetch that changes the payload file made one request,
\* returned no error and left there the payload the feed served, which parses; a
\* fetch whose request, copy or parse failed leaves the payload file and the
\* metadata file as they were.
C23_CacheReplacedOnlyAfterParse ==
    [][Fetches =>
        /\ (cacheFile' # cacheFile
              => /\ fetched'.calls = 1 /\ fetched'.err = "nil"
                 /\ parseCSV(upstream).err = "nil"
                 /\ cacheFile' = PayloadFile(upstream))
        /\ (fetched'.failed \in DownloadSteps
              => UNCHANGED <<cacheFile, metaFile>>)]_vars

\* C23 witness: the download of a payload that does not parse failed, and the entry
\* cached before it is still in place.
C23_Witness ==
    /\ fetched.err = "error" /\ fetched.failed = "parse"
    /\ cacheFile.valid /\ parseCSV(cacheFile.rows).err = "nil"
    /\ metaFile.valid
    /\ cacheFile.rows # upstream

\* Both cache files exist and the metadata or the payload cannot be read or parsed.
DamagedEntry ==
    /\ cacheFile.exists /\ metaFile.exists
    /\ \/ ~metaFile.valid
       \/ ~cacheFile.valid
       \/ parseCSV(cacheFile.rows).err # "nil"

\* C24. A failure while reading a cache entry (metadata or payload unreadable or
\* unparsable) is a miss: the fetch makes exactly one download, an error it returns
\* is the error of a step of that download, and when the download succeeds it
\* returns the downloaded records.
C24_CacheReadFailureIsMiss ==
    [][Fetches /\ DamagedEntry =>
        /\ ~fetched'.hit /\ fetched'.calls = 1
        /\ (fetched'.err = "error"
              => fetched'.failed \in DownloadSteps \cup {"createtemp"})
        /\ (fetched'.err = "nil"
              => fetched'.records = parseCSV(upstream).records)
        /\ (fetched'.failed \in {"none", "rename", "metadata"}
              /\ parseCSV(upstream).err = "nil" => fetched'.err = "nil")]_vars

\* C24 witness: the payload of an entry that has not expired is damaged, and the
\* fetch returned the downloaded records (the rename failed, the entry is as it was).
C24_Witness ==
    /\ DamagedEntry /\ metaFile.valid /\ ~Expired(metaFile)
    /\ fetched.calls = 1 /\ fetched.failed = "rename" /\ fetched.err = "nil"
    /\ fetched.records = parseCSV(upstream).records

-----------------------------------------------------------------------------
\* The number of separators in a path.
Separators(path) == Cardinality({ p \in 1..Len(path) : path[p] = Slash })

\* C25. A two-column row is kept only if its path holds exactly one separator and
\* splits into two non-empty parts: every record parse returns has a path with one
\* "/", a non-empty group and a non-empty record id, so that rows whose path has
\* two or more "/", starts with "/" or ends with its only "/" are discarded.
C25_OnlyWellSplitPathsKept ==
    parseResult # NotParsed /\ parseResult.err = "nil" =>
        \A n \in 1..Len(parseResult.records) :
            LET r == parseResult.records[n]
            IN  /\ Separators(r.FullPath) = 1
                /\ r.Ecosystem # <<>>
                /\ r.VulnID # <<>>

-----------------------------------------------------------------------------
\* The number of values of each enumerated field.
VocabularySizes ==
    [verifiability |-> 3, exploitability_context |-> 4, attack_vector |-> 4,
     impact_scope |-> 5, remediation_complexity |-> 5, temporal_classification |-> 4]

\* C26. validateClassification accepts a classification exactly when each of the six
\* enumerated fields is non-empty and is, letter for letter, one of the values the
\* enum tag of the Classification struct declares for it; the vocabularies it checks
\* against are those declared sets, of 3, 4, 4, 5, 5 and 4 values.
C26_AcceptsIffInVocabulary ==
    /\ DOMAIN validValues = DOMAIN enum
    /\ \A f \in DOMAIN enum : validValues[f] = enum[f]
    /\ [f \in DOMAIN enum |-> Cardinality(enum[f])] = VocabularySizes
    /\ verdict # NotValidated =>
          (verdict = NoError
             <=> \A f \in DOMAIN enum : candidate[f] # "" /\ candidate[f] \in enum[f])

\* C26 witness: a classification that differs from the valid one in two fields, each
\* holding another declared value, was accepted.
C26_Witness ==
    /\ verdict = NoError
    /\ candidate.verifiability = "non-verifiable"
    /\ candidate.impact_scope = "data-integrity"

\* C27. Every error of validateClassification, for a missing field and for a value
\* outside the vocabulary, names a field that offends and the set of values allowed
\* for that field.
C27_ErrorNamesFieldAndAllowedSet ==
    verdict \notin {NotValidated, NoError} =>
        /\ verdict.field \in DOMAIN validValues
        /\ candidate[verdict.field] \notin validValues[verdict.field]
        /\ verdict.valid = validValues[verdict.field]

-----------------------------------------------------------------------------
\* C28. Unconstrained structured generation tolerates surrounding prose: for an
\* answer made of any text, the JSON object of a valid classification and any text,
\* ChatStructured returns no error and the classification of the object.
C28_SurroundingProseTolerated ==
    structured # NotAsked =>
        /\ structured.err = "nil"
        /\ structured.Result = ValidClassification

-----------------------------------------------------------------------------
\* The lines of a prompt about one section.
Section(p, section) == SelectSeq(p, LAMBDA l : l.section = section)

\* The values a list section of the prompt prints, in order.
Listed(p, section) ==
    LET lines == Section(p, section)
    IN  [n \in 1..Len(lines) |-> lines[n].item[1]]

\* The first n items of a list, all of it when it is shorter.
Prefix(s, n) == SubSeq(s, 1, IF Len(s) < n THEN Len(s) ELSE n)

\* C29. The prompt lists the first three references of the record in their order,
\* min(k, 3) of k, and nothing of the rest; the aliases, the affected packages and
\* the severity scores are all listed, however many there are.
C29_FirstThreeReferences ==
    prompt # <<>> =>
        /\ Listed(prompt, "reference") = Prefix(osv.References, 3)
        /\ Listed(prompt, "affected") = osv.Affected
        /\ Listed(prompt, "severity") = osv.Severity
        /\ Len(osv.Aliases) > 0 => Section(prompt, "aliases") = <<Line("aliases", osv.Aliases)>>
        /\ Len(osv.Aliases) = 0 => Section(prompt, "aliases") = <<>>

\* C29 witness: a record of four references and four of each other list; the prompt
\* lists the first three references and all of the rest.
C29_Witness ==
    /\ osv.References = <<2, 1, 2, 1>>
    /\ Len(osv.Aliases) = 4 /\ Len(osv.Affected) = 4 /\ Len(osv.Severity) = 4
    /\ Listed(prompt, "reference") = <<2, 1, 2>>
    /\ Len(Section(prompt, "affected")) = 4

-----------------------------------------------------------------------------
\* The records of the run whose classify, store and watermark write all succeeded.
Completed == Logged("classify") \cap Logged("store") \cap Logged("update")

\* The sum of f over the set S.
RECURSIVE SumOf(_, _)
SumOf(f, S) ==
    IF S = {} THEN 0
    ELSE LET x == CHOOSE y \in S : TRUE
         IN  f[x] + SumOf(f, S \ {x})

\* C30. The metrics counters are updated only after a record fully completes: in
\* every state processedCount is the number of records of the run whose classify,
\* store and watermark write all succeeded, and the cumulative time and tokens are
\* the sums of the time and tokens of exactly those records, so that a record that
\* failed at any step has changed none of the three.
C30_MetricsOnlyAfterCompletion ==
    LET done == Completed
    IN  /\ processedCount = Cardinality(done)
        /\ totalProcessingTimeMs = SumOf([k \in done |-> ProcessingTimeMs(k)], done)
        /\ totalTokens = SumOf([k \in done |-> TotalTokens(k)], done)

\* C30 witness: the first record of the run completed and was counted, the store
\* write of the second failed and the counters are those of the first alone.
C30_Witness ==
    /\ Len(log) > 0 /\ Last(log) = Event("storefail", 2)
    /\ Completed = {1}
    /\ processedCount = 1
    /\ totalTokens = TotalTokens(1)
    /\ totalProcessingTimeMs = ProcessingTimeMs(1)

-----------------------------------------------------------------------------
\* C31. A configured cache TTL of 0 means that the cached index never expires: with
\* cache_ttl 0 (or omitted) in the configuration config.Load reads, a fetch that
\* finds a cache entry that parses is a cache hit, whatever the age of the entry.
C31_ZeroTTLNeverExpires ==
    [][Fetches /\ cache_ttl = 0
          /\ cacheFile.exists /\ cacheFile.valid /\ parseCSV(cacheFile.rows).err = "nil"
          /\ metaFile.exists /\ metaFile.valid
          => fetched'.hit /\ fetched'.calls = 0]_vars

-----------------------------------------------------------------------------
\* C36. The payload and the metadata of the cache stay consistent: whenever both
\* files exist and the metadata parses, its cachedAt is the hour at which the
\* payload now at the cache path was downloaded, also after fetches whose rename or
\* metadata write failed.
C36_PayloadMetadataConsistent ==
    cacheFile.exists /\ metaFile.exists /\ metaFile.valid
        => metaFile.CachedAt = downloadedAt

-----------------------------------------------------------------------------
-----------------------------------------------------------------------------
-----------------------------------------------------------------------------
\* One run, on an empty store or on the store a complete run has left.

\* The rows of the index that pass the group filter.
Passing == { k \in 1..Len(records) : PassesGroupFilter(k) }

\* A run without failures has stored every passing row and has written the
\* watermark of each in index order, so the watermark is the last passing row's.
StoreOfCompleteRun ==
    /\ Passing # {}
    /\ classifications = { records[k].VulnID : k \in Passing }
    /\ lastProcessedTimestamp =
           records[CHOOSE k \in Passing : \A m \in Passing : m <= k].Modified

InitRun ==
    /\ ecosystem \in EcosystemFilters
    /\ records \in UNION { Indexes(n, ecosystem) : n \in 1..MaxRecords }
    /\ \/ classifications = {} /\ lastProcessedTimestamp = <<>>
       \/ StoreOfCompleteRun
    /\ IdleRun
    /\ NoParse
    /\ NoCache
    /\ NoClassifier

\* The one run of the process.
StartOnce == runs = 0 /\ StartRun(1..MaxBatch) /\ UNCHANGED previous

NextRun ==
    \/ StartOnce
    \/ Cancel
    \/ LoopStep
    \/ LoopEnd
    \/ FetchVulnerability
    \/ BatchDone
    \/ Classify
    \/ StoreClassification
    \/ UpdateLastProcessedTimestamp

SpecRun == InitRun /\ [][NextRun]_vars

\* The `modified` values of the rows of the index.
IndexModified == { records[k].Modified : k \in 1..Len(records) }

\* C35. The watermark written for a record is the `modified` of that record's row
\* of the index, which replaces the one of the detail document before processFunc
\* runs: the record handed to processFunc carries the row's value, the watermark
\* after a successful write is the row's value, and every non-empty watermark in
\* the store is a `modified` value of the index.
C35_WatermarkIsIndexModified ==
    /\ pc \in {"classify", "store", "update"} => vuln.Modified = records[batch[j]].Modified
    /\ Len(log) > 0 /\ Last(log).kind = "update"
          => lastProcessedTimestamp = records[Last(log).rec].Modified
    /\ lastProcessedTimestamp # <<>> => lastProcessedTimestamp \in IndexModified

\* C35 witness: the watermark of the second row was written, and it is not the
\* `modified` of the detail document.
C35_Witness ==
    /\ Len(log) > 0 /\ Last(log) = Event("update", 2)
    /\ lastProcessedTimestamp = records[2].Modified
    /\ lastProcessedTimestamp # fetchVulnerability(2).Modified

-----------------------------------------------------------------------------
\* The rows the current run has to consider, in index order.
SurvivorSeq ==
    SelectSeq([k \in 1..Len(records) |-> k], LAMBDA k : Survives(k, lastTimestamp))

\* The rows of the log entries of these kinds, in the order of the log.
RowsLogged(kinds) ==
    LET entries == SelectSeq(log, LAMBDA e : e.kind \in kinds)
    IN  [n \in 1..Len(entries) |-> entries[n].rec]

\* C33. The batch size does not change what is processed: whatever the batch size,
\* a run that was not cancelled and has returned has fetched the surviving rows in
\* index order, all of them when it returned nil and up to the row of the failure
\* when it aborted, and has invoked processFunc for exactly the rows whose fetch
\* succeeded, in that order.
C33_BatchSizeIndependent ==
    RunEnded /\ ~ctxDone =>
        LET attempted == RowsLogged({"fetch", "fetchfail"})
        IN  /\ attempted = Prefix(SurvivorSeq, Len(attempted))
            /\ err = "none" => attempted = SurvivorSeq
            /\ err = "process" => Last(log).kind \in ProcessFailures
            /\ RowsLogged({"classify", "classifyfail"}) = RowsLogged({"fetch"})

\* C33 witness: a run with batches of two over two surviving rows returned nil
\* after the fetch of the first row failed and the second row was processed.
C33_Witness ==
    /\ RunEnded /\ ~ctxDone /\ err = "none"
    /\ batchSize = 2
    /\ RowsLogged({"fetch", "fetchfail"}) = <<1, 2>>
    /\ RowsLogged({"classify", "classifyfail"}) = <<2>>

-----------------------------------------------------------------------------
\* C34. No flush begins after the cancellation signal has been set: the loop of
\* ProcessVulnerabilities never calls processBatch, for a full batch or for the
\* final partial batch, once ctx.Done() is closed.
C34_NoFlushAfterCancel == [][ctxDone /\ pc = "loop" => pc' # "fetch"]_vars

-----------------------------------------------------------------------------
\* Two runs over an index sorted strictly ascending by `modified`.

MaxSorted == 2

\* "1", "10", "100", ...: the `modified` value of row k of the sorted index.
Stamp(k) == [n \in 1..k |-> IF n = 1 THEN 1 ELSE 0]

SortedIndexes(n, filter) ==
    { [k \in 1..n |-> CSVRecord(k, Stamp(k), eco[k])] : eco \in [1..n -> Ecosystems(filter)] }

InitResume ==
    /\ ecosystem \in EcosystemFilters
    /\ records \in UNION { SortedIndexes(n, ecosystem) : n \in 1..MaxSorted }
    /\ classifications = {}
    /\ lastProcessedTimestamp = <<>>
    /\ IdleRun
    /\ NoParse
    /\ NoCache
    /\ NoClassifier

\* Start, remembering the run that ended or was interrupted.
StartResume == StartRun(1..MaxBatch) /\ previous' = [log |-> log, err |-> err]

NextResume ==
    \/ StartResume
    \/ Cancel
    \/ LoopStep
    \/ LoopEnd
    \/ FetchVulnerability
    \/ BatchDone
    \/ Classify
    \/ StoreClassification
    \/ UpdateLastProcessedTimestamp

SpecResume == InitResume /\ [][NextResume]_vars

\* The rows with a log entry of one of these kinds in this log.
RowsIn(calls, kinds) == { calls[n].rec : n \in { m \in 1..Len(calls) : calls[m].kind \in kinds } }

\* The second run is a resumed run that read the watermark, and no detail fetch
\* failed in either run.
ResumedPair ==
    /\ runs = 2
    /\ resume /\ ~getErr
    /\ RowsIn(previous.log, {"fetchfail"}) = {}
    /\ RowsIn(log, {"fetchfail"}) = {}

\* When the resumed run has returned nil, every row that passes the group filter
\* has a stored classification.
ResumeStoresAll ==
    ResumedPair /\ RunEnded /\ err = "none" =>
        \A k \in 1..Len(records) :
            PassesGroupFilter(k) => records[k].VulnID \in classifications

\* The rows given to Classify in both runs.
ClassifiedTwice ==
    RowsIn(log, {"classify", "classifyfail"})
        \cap RowsIn(previous.log, {"classify", "classifyfail"})

\* C32 as stated: over a sorted index and without fetch failures, a resumed run
\* that returned nil leaves a stored classification for every row passing the
\* group filter, and a row classified in both runs is one whose classification
\* the first run stored and whose watermark write failed.
C32_OnlyFailedWatermarkRepeats ==
    /\ ResumeStoresAll
    /\ ResumedPair =>
        \A k \in ClassifiedTwice :
            /\ k \in RowsIn(previous.log, {"store"})
            /\ k \in RowsIn(previous.log, {"updatefail"})

\* C32, amended: over a sorted index and without fetch failures, a resumed run
\* that read the watermark and returned nil leaves a stored classification for
\* every row passing the group filter, and a row classified in both runs is the
\* row at which processFunc returned an error in the first run (Classify,
\* StoreClassification or UpdateLastProcessedTimestamp failed).
C32_OnlyFailedRecordRepeats ==
    /\ ResumeStoresAll
    /\ ResumedPair =>
        \A k \in ClassifiedTwice :
            /\ previous.err = "process"
            /\ Last(previous.log).kind \in ProcessFailures
            /\ Last(previous.log).rec = k

\* C32 witness: the first run processed row 1 and aborted when the store of
\* row 2 failed; the resumed run classified row 2 again and returned nil.
C32_Witness ==
    /\ ResumedPair /\ RunEnded /\ err = "none"
    /\ Len(records) = 2
    /\ previous.err = "process"
    /\ Last(previous.log) = Event("storefail", 2)
    /\ RowsIn(previous.log, {"update"}) = {1}
    /\ RowsIn(log, {"classify"}) = {2}
    /\ ClassifiedTwice = {2}

=============================================================================
